---- MODULE Spec2Model ----
(***************************************************************************)
(* Model of the OpenPGP signature-packet codec of pretty-good              *)
(* (src/src/signature.rs, src/src/types.rs).                               *)
(*                                                                         *)
(* Byte buffers are sequences over 0..255.  Machine integers wider than    *)
(* 16 bits are kept as big-endian sequences of 16-bit limbs (a u32 is two  *)
(* limbs, a u64 four), so that every value of the type is representable    *)
(* and the byte <-> integer conversions are computed, not assumed.         *)
(*                                                                         *)
(* A nom IResult is a record whose kind is "Done" (rem, val), "Error"      *)
(* (err) or "Incomplete".  The Needed payload of Incomplete only reaches   *)
(* the reason string of the final error and is not modelled.  The kind     *)
(* "Panic" stands for a Rust panic unwinding out of the parser.            *)
(***************************************************************************)
EXTENDS Integers, Sequences, FiniteSets

VARIABLES
    pc,               \* position of the caller: which call comes next
    buf,              \* the byte buffer handed to the decoder
    sub,              \* the Subpacket handed to Subpacket::to_bytes
    id,               \* the numeric algorithm id handed to the registries
    sig,              \* the SignaturePacket built by from_bytes
    out,              \* the value returned by the last call
    overflow_checks   \* build profile: TRUE = arithmetic overflow panics

vars == <<pc, buf, sub, id, sig, out, overflow_checks>>

Byte == 0..255

None == [kind |-> "None"]

\* ------------------------------------------------------------- integers

\* u32::from(u8), u32::from(u16)
U32From(x) == <<0, x>>

\* u64::from(u32)
U64FromU32(x) == <<0, 0, x[1], x[2]>>

\* u64 as u32
U64AsU32(x) == <<x[3], x[4]>>

\* (x as u16) << 8
Shl8(x) == (x * 256) % 65536

\* The big-endian octets of a limb sequence.
RECURSIVE LimbsToBytes(_)
LimbsToBytes(x) ==
    IF x = <<>> THEN <<>>
    ELSE <<x[1] \div 256, x[1] % 256>> \o LimbsToBytes(Tail(x))

\* ------------------------------------------------------------- nom

Done(rem, val) == [kind |-> "Done", rem |-> rem, val |-> val]
Error(e) == [kind |-> "Error", err |-> e]
Incomplete == [kind |-> "Incomplete"]
Panic == [kind |-> "Panic"]

Custom(n) == [ek |-> "Custom", code |-> n]
ErrorKind(name) == [ek |-> name, code |-> 0]

Drop(inp, n) == SubSeq(inp, n + 1, Len(inp))
Take(inp, n) == SubSeq(inp, 1, n)

be_u8(inp) ==
    IF Len(inp) < 1 THEN Incomplete ELSE Done(Drop(inp, 1), inp[1])

be_u16(inp) ==
    IF Len(inp) < 2 THEN Incomplete
    ELSE Done(Drop(inp, 2), inp[1] * 256 + inp[2])

\* be_u32 reading the octets least significant first
be_u32_mutant(inp) ==
    IF Len(inp) < 4 THEN Incomplete
    ELSE Done(Drop(inp, 4), <<inp[4] * 256 + inp[3], inp[2] * 256 + inp[1]>>)

be_u32(inp) ==
    IF Len(inp) < 4 THEN Incomplete
    ELSE Done(Drop(inp, 4), <<inp[1] * 256 + inp[2], inp[3] * 256 + inp[4]>>)

be_u64(inp) ==
    IF Len(inp) < 8 THEN Incomplete
    ELSE Done(Drop(inp, 8), <<inp[1] * 256 + inp[2], inp[3] * 256 + inp[4],
                              inp[5] * 256 + inp[6], inp[7] * 256 + inp[8]>>)

\* take!(i, n) for a small count n
take(inp, n) ==
    IF Len(inp) < n THEN Incomplete ELSE Done(Drop(inp, n), Take(inp, n))

\* take!(i, cnt) for a count converted from u32: every buffer is shorter
\* than 2^16 bytes, so a count with a non-zero high limb is never available.
take_u32(inp, cnt) ==
    IF cnt[1] > 0 \/ Len(inp) < cnt[2] THEN Incomplete
    ELSE Done(Drop(inp, cnt[2]), Take(inp, cnt[2]))

\* tag!(b"\x..") for a one-byte tag
tag(inp, b) ==
    IF Len(inp) >= 1 /\ inp[1] # b THEN Error(ErrorKind("Tag"))
    ELSE IF Len(inp) < 1 THEN Incomplete
    ELSE Done(Drop(inp, 1), <<b>>)

rest(inp) == Done(<<>>, inp)

complete(r) ==
    IF r.kind = "Incomplete" THEN Error(ErrorKind("Complete")) ELSE r

\* ------------------------------------------------------------- subpacket_length

\* subpacket_length without the + 192 of the two-octet form
subpacket_length_mutant(inp) ==
    LET r1 == be_u8(inp) IN
    IF r1.kind # "Done" THEN r1
    ELSE
        LET first_octet == r1.val
            remaining == r1.rem
        IN  IF first_octet < 192 THEN Done(remaining, U32From(first_octet))
            ELSE IF first_octet < 255 THEN
                LET r2 == be_u8(remaining) IN
                IF r2.kind # "Done" THEN r2
                ELSE Done(r2.rem, U32From(Shl8(first_octet - 192) + r2.val))
            ELSE be_u32(remaining)

subpacket_length(inp) ==
    LET r1 == be_u8(inp) IN
    IF r1.kind # "Done" THEN r1
    ELSE
        LET first_octet == r1.val
            remaining == r1.rem
        IN  IF first_octet < 192 THEN Done(remaining, U32From(first_octet))
            ELSE IF first_octet < 255 THEN
                LET r2 == be_u8(remaining) IN
                IF r2.kind # "Done" THEN r2
                ELSE
                    \* u16 arithmetic; the sum is at most 16319, so neither
                    \* addition can overflow
                    LET second_octet == r2.val
                        length == Shl8(first_octet - 192) + second_octet + 192
                    IN  Done(r2.rem, U32From(length))
            ELSE be_u32(remaining)

\* ------------------------------------------------------------- types.rs

PublicKeyAlgorithm_from(val) ==
    CASE val = 1 -> "Rsa"
      [] val = 2 -> "RsaEncryptOnly"
      [] val = 3 -> "RsaSignOnly"
      [] val = 16 -> "ElgamalEncryptOnly"
      [] val = 17 -> "Dsa"
      [] val = 18 -> "EllipticCurve"
      [] val = 19 -> "Ecdsa"
      [] val = 20 -> "Elgamal"
      [] val = 21 -> "DiffieHellman"
      [] OTHER -> "Unknown"

\* u8::from(PublicKeyAlgorithm) with Unknown mapped to 0
PublicKeyAlgorithm_into_u8_mutant(val) ==
    CASE val = "Rsa" -> 1
      [] val = "RsaEncryptOnly" -> 2
      [] val = "RsaSignOnly" -> 3
      [] val = "ElgamalEncryptOnly" -> 16
      [] val = "Dsa" -> 17
      [] val = "EllipticCurve" -> 18
      [] val = "Ecdsa" -> 19
      [] val = "Elgamal" -> 20
      [] val = "DiffieHellman" -> 21
      [] val = "Unknown" -> 0

PublicKeyAlgorithm_into_u8(val) ==
    CASE val = "Rsa" -> 1
      [] val = "RsaEncryptOnly" -> 2
      [] val = "RsaSignOnly" -> 3
      [] val = "ElgamalEncryptOnly" -> 16
      [] val = "Dsa" -> 17
      [] val = "EllipticCurve" -> 18
      [] val = "Ecdsa" -> 19
      [] val = "Elgamal" -> 20
      [] val = "DiffieHellman" -> 21
      [] val = "Unknown" -> 255

HashAlgorithm_from(val) ==
    CASE val = 1 -> "Md5"
      [] val = 2 -> "Sha1"
      [] val = 3 -> "Ripemd160"
      [] val = 8 -> "Sha256"
      [] val = 9 -> "Sha384"
      [] val = 10 -> "Sha512"
      [] val = 11 -> "Sha224"
      [] OTHER -> "Unknown"

HashAlgorithm_into_u8(val) ==
    CASE val = "Md5" -> 1
      [] val = "Sha1" -> 2
      [] val = "Ripemd160" -> 3
      [] val = "Sha256" -> 8
      [] val = "Sha384" -> 9
      [] val = "Sha512" -> 10
      [] val = "Sha224" -> 11
      [] val = "Unknown" -> 255

NomError_from(val) ==
    CASE val = 1 -> "Unimplemented"
      [] val = 2 -> "UseOfReservedValue"
      [] val = 3 -> "IntegerReadError"
      [] OTHER -> "Unknown"

\* ------------------------------------------------------------- Subpacket

Some(v) == [some |-> TRUE, v |-> v]
NoneOpt == [some |-> FALSE]

\* Option::or
Option_or(a, b) == IF a.some THEN a ELSE b

\* Duration::from_secs
Duration_from_secs(secs) == [secs |-> secs, nanos |-> 0]

SignatureCreationTime(d) == [tag |-> "SignatureCreationTime", time |-> d]
SignatureExpirationTime(d) == [tag |-> "SignatureExpirationTime", time |-> d]
Issuer(i) == [tag |-> "Issuer", issuer |-> i]
SubpacketUnknown(t, length) == [tag |-> "Unknown", t |-> t, length |-> length]

\* byteorder ReadBytesExt::read_u32::<BigEndian> on a slice
read_u32(contents) ==
    IF Len(contents) < 4 THEN [ok |-> FALSE]
    ELSE [ok |-> TRUE, val |-> be_u32(contents).val]

\* byteorder ReadBytesExt::read_u64::<BigEndian> on a slice
read_u64(contents) ==
    IF Len(contents) < 8 THEN [ok |-> FALSE]
    ELSE [ok |-> TRUE, val |-> be_u64(contents).val]

\* length - 1 in u32 where the build wraps on overflow
WrappingSub1(x) ==
    IF x[2] > 0 THEN <<x[1], x[2] - 1>>
    ELSE IF x[1] > 0 THEN <<x[1] - 1, 65535>>
    ELSE <<65535, 65535>>

\* The reserved type tags without 19
ReservedTags_mutant == {0, 1, 8, 13, 14, 15, 17, 18}

ReservedTags == {0, 1, 8, 13, 14, 15, 17, 18, 19}

\* The match on subpacket_type, once the payload has been taken.
subpacket_dispatch(remaining, subpacket_type, packet_contents, length) ==
    CASE subpacket_type \in ReservedTags -> Error(Custom(2))
      [] subpacket_type = 2 ->
            LET time_secs == read_u32(packet_contents) IN
            IF ~time_secs.ok THEN Error(Custom(3))
            ELSE Done(remaining, SignatureCreationTime(
                        Duration_from_secs(U64FromU32(time_secs.val))))
      [] subpacket_type = 3 ->
            LET time_secs == read_u32(packet_contents) IN
            IF ~time_secs.ok THEN Error(Custom(3))
            ELSE Done(remaining, SignatureExpirationTime(
                        Duration_from_secs(U64FromU32(time_secs.val))))
      [] subpacket_type = 16 ->
            LET issuer == read_u64(packet_contents) IN
            IF ~issuer.ok THEN Error(Custom(3))
            ELSE Done(remaining, Issuer(issuer.val))
      [] OTHER -> Done(remaining, SubpacketUnknown(subpacket_type, length))

\* parse_subpacket once the payload has been taken
parse_after_take(subpacket_type, length, r3) ==
    IF r3.kind # "Done" THEN r3
    ELSE subpacket_dispatch(r3.rem, subpacket_type, r3.val, length)

\* parse_subpacket once the type tag has been read: length - 1 panics on
\* overflow in a build with overflow checks and wraps in one without
parse_after_type(length, r2) ==
    IF r2.kind # "Done" THEN r2
    ELSE IF length = <<0, 0>> /\ overflow_checks THEN Panic
    ELSE parse_after_take(r2.val, length, take_u32(r2.rem, WrappingSub1(length)))

\* parse_subpacket once the length has been read
parse_after_length(r1) ==
    IF r1.kind # "Done" THEN r1 ELSE parse_after_type(r1.val, be_u8(r1.rem))

parse_subpacket(inp) == parse_after_length(subpacket_length(inp))

\* many0!(parse_subpacket): the loop, with the subpackets collected so far
RECURSIVE many0(_, _)

\* One trip of the loop, on the result r of parse_subpacket(input)
many0_step(input, res, r) ==
    CASE r.kind = "Error" -> Done(input, res)
      [] r.kind = "Incomplete" -> Incomplete
      [] r.kind = "Panic" -> Panic
      [] r.kind = "Done" ->
            IF r.rem = input THEN Error(ErrorKind("Many0"))
            ELSE many0(r.rem, Append(res, r.val))

many0(input, res) ==
    IF Len(input) = 0 THEN Done(input, res)
    ELSE many0_step(input, res, parse_subpacket(input))

subpackets(inp) == many0(inp, <<>>)

RECURSIVE find_timestamp(_)
find_timestamp(subs) ==
    IF subs = <<>> THEN NoneOpt
    ELSE IF Head(subs).tag = "SignatureCreationTime" THEN Some(Head(subs).time)
    ELSE find_timestamp(Tail(subs))

RECURSIVE find_signer(_)
find_signer(subs) ==
    IF subs = <<>> THEN NoneOpt
    ELSE IF Head(subs).tag = "Issuer" THEN Some(Head(subs).issuer)
    ELSE find_signer(Tail(subs))

\* Subpacket::to_bytes
to_bytes(self) ==
    CASE self.tag = "SignatureCreationTime" ->
            <<2>> \o LimbsToBytes(U64AsU32(self.time.secs))
      [] self.tag = "Issuer" -> <<16>> \o LimbsToBytes(self.issuer)
      [] OTHER -> <<>>

\* ------------------------------------------------------------- SignaturePacket

SignatureType_from(val) ==
    CASE val = 0 -> "BinaryDocument"
      [] val = 1 -> "TextDocument"
      [] val = 2 -> "Standalone"
      [] val = 16 -> "GenericCertification"
      [] val = 17 -> "PersonaCertification"
      [] val = 18 -> "CasualCertification"
      [] val = 19 -> "PositiveCertification"
      [] val = 24 -> "SubkeyBinding"
      [] val = 25 -> "PrimaryKeyBinding"
      [] val = 31 -> "DirectKey"
      [] val = 32 -> "KeyRevocation"
      [] val = 40 -> "SubkeyRevocation"
      [] val = 48 -> "CertificationRevocation"
      [] val = 64 -> "Timestamp"
      [] val = 80 -> "ThirdPartyConfirmation"
      [] OTHER -> "Unknown"

\* length_value!(be_u16, subpackets), once the section has been parsed: what
\* the inner parser left unparsed is dropped
length_value_done(i, r3) ==
    IF r3.kind # "Done" THEN r3 ELSE Done(i, r3.val)

\* length_value!(be_u16, subpackets)
length_value_subpackets(inp) ==
    LET r1 == be_u16(inp) IN
    IF r1.kind # "Done" THEN r1 ELSE
    LET r2 == take(r1.rem, r1.val) IN
    IF r2.kind # "Done" THEN r2
    ELSE length_value_done(r2.rem, complete(subpackets(r2.val)))

\* One step of a do_parse! chain.
field(name, inp) ==
    CASE name = "tag 03" -> tag(inp, 3)
      [] name = "tag 04" -> tag(inp, 4)
      [] name = "tag 05" -> tag(inp, 5)
      [] name = "be_u8" -> be_u8(inp)
      [] name = "be_u32" -> be_u32(inp)
      [] name = "be_u64" -> be_u64(inp)
      [] name = "take 2" -> take(inp, 2)
      [] name = "rest" -> rest(inp)
      [] name = "subpackets" -> length_value_subpackets(inp)

\* do_parse!: the parsers run in order, each on what the one before left; the
\* first that is not Done ends the chain with its result.
RECURSIVE do_parse(_, _, _)

do_parse_step(fields, vals, r) ==
    IF r.kind # "Done" THEN r
    ELSE do_parse(Tail(fields), r.rem, Append(vals, r.val))

do_parse(fields, inp, vals) ==
    IF fields = <<>> THEN Done(inp, vals)
    ELSE do_parse_step(fields, vals, field(Head(fields), inp))

\* The value built at the end of v3_sig.
v3_packet(signature_type, creation_time, signer, pubkey_algo, hash_algo, sigbytes) ==
    [sig_type |-> SignatureType_from(signature_type),
     timestamp |-> Some(Duration_from_secs(U64FromU32(creation_time))),
     signer |-> Some(signer),
     pubkey_algo |-> PublicKeyAlgorithm_from(pubkey_algo),
     hash_algo |-> HashAlgorithm_from(hash_algo),
     hashed_subpackets |-> <<>>,
     unhashed_subpackets |-> <<>>,
     signature_contents |-> sigbytes]

v3_done(r) ==
    IF r.kind # "Done" THEN r
    ELSE Done(r.rem, v3_packet(r.val[3], r.val[4], r.val[5], r.val[6],
                               r.val[7], r.val[9]))

v3_sig(inp) ==
    v3_done(do_parse(<<"tag 03", "tag 05", "be_u8", "be_u32", "be_u64",
                       "be_u8", "be_u8", "take 2", "rest">>, inp, <<>>))

\* The value built at the end of v4_sig.
\* v4_sig searching the unhashed section before the hashed one
v4_packet_mutant(signature_type, pubkey_algo, hash_algo, hashed_subs, unhashed_subs, sigbytes) ==
    [sig_type |-> SignatureType_from(signature_type),
     timestamp |-> Option_or(find_timestamp(unhashed_subs),
                             find_timestamp(hashed_subs)),
     signer |-> Option_or(find_signer(unhashed_subs), find_signer(hashed_subs)),
     pubkey_algo |-> PublicKeyAlgorithm_from(pubkey_algo),
     hash_algo |-> HashAlgorithm_from(hash_algo),
     hashed_subpackets |-> hashed_subs,
     unhashed_subpackets |-> unhashed_subs,
     signature_contents |-> sigbytes]

v4_packet(signature_type, pubkey_algo, hash_algo, hashed_subs, unhashed_subs, sigbytes) ==
    [sig_type |-> SignatureType_from(signature_type),
     timestamp |-> Option_or(find_timestamp(hashed_subs),
                             find_timestamp(unhashed_subs)),
     signer |-> Option_or(find_signer(hashed_subs), find_signer(unhashed_subs)),
     pubkey_algo |-> PublicKeyAlgorithm_from(pubkey_algo),
     hash_algo |-> HashAlgorithm_from(hash_algo),
     hashed_subpackets |-> hashed_subs,
     unhashed_subpackets |-> unhashed_subs,
     signature_contents |-> sigbytes]

v4_done(r) ==
    IF r.kind # "Done" THEN r
    ELSE Done(r.rem, v4_packet(r.val[2], r.val[3], r.val[4], r.val[5],
                               r.val[6], r.val[8]))

v4_sig(inp) ==
    v4_done(do_parse(<<"tag 04", "be_u8", "be_u8", "be_u8", "subpackets",
                       "subpackets", "take 2", "rest">>, inp, <<>>))

\* alt!(v3_sig | v4_sig): only an Error of an alternative moves on to the
\* next one, and the Error of the last one becomes ErrorKind::Alt
alt_last(r2) ==
    IF r2.kind # "Error" THEN r2 ELSE Error(ErrorKind("Alt"))

alt_first(inp, r1) ==
    IF r1.kind # "Error" THEN r1 ELSE alt_last(v4_sig(inp))

signature(inp) == alt_first(inp, v3_sig(inp))

Ok(v) == [kind |-> "Ok", val |-> v]
InvalidFormat(reason) == [kind |-> "Err", error |-> "InvalidFormat", reason |-> reason]

\* SignaturePacket::from_bytes: the match on the parser's result
from_result(r) ==
    CASE r.kind = "Done" -> Ok(r.val)
      [] r.kind = "Error" /\ r.err.ek = "Custom" ->
            InvalidFormat(NomError_from(r.err.code))
      [] r.kind = "Error" /\ r.err.ek # "Custom" -> InvalidFormat(r.err.ek)
      [] r.kind = "Incomplete" -> InvalidFormat("Incomplete")
      [] r.kind = "Panic" -> Panic

\* SignaturePacket::from_bytes
from_bytes(bytes) == from_result(signature(bytes))

\* ------------------------------------------------------------- Signature value

\* gcrypt Integer in Format::Pgp.  An Integer is kept as its magnitude: the
\* big-endian octets without leading zero octets.
RECURSIVE StripZeros(_)
StripZeros(b) ==
    IF b # <<>> /\ b[1] = 0 THEN StripZeros(Tail(b)) ELSE b

\* Integer::from_bytes(Format::Pgp, ..): a two-octet bit count, then
\* (bits + 7) / 8 octets of magnitude.
Integer_from_bytes(b) ==
    IF Len(b) < 2 THEN [ok |-> FALSE]
    ELSE
        LET nbits == b[1] * 256 + b[2]
            nbytes == (nbits + 7) \div 8
        IN  IF Len(b) < 2 + nbytes THEN [ok |-> FALSE]
            ELSE [ok |-> TRUE, val |-> StripZeros(SubSeq(b, 3, 2 + nbytes))]

\* Integer::len_encoded(Format::Pgp)
len_encoded(mpi) == 2 + Len(mpi)

SignatureRsa(mpi) == [tag |-> "Rsa", mpi |-> mpi]
SignatureDsa(r, s) == [tag |-> "Dsa", r |-> r, s |-> s]
SignatureUnknown(payload) == [tag |-> "Unknown", payload |-> payload]
GcryptErr == [kind |-> "Err", error |-> "Gcrypt"]

\* The Dsa arm of SignaturePacket::contents with s read at a fixed offset
contents_dsa_mutant(signature_contents) ==
    LET mpi_r == Integer_from_bytes(signature_contents) IN
    IF ~mpi_r.ok THEN GcryptErr
    ELSE
        LET s_pos == 22
            mpi_s == Integer_from_bytes(Drop(signature_contents, s_pos))
        IN  IF ~mpi_s.ok THEN GcryptErr
            ELSE Ok(SignatureDsa(mpi_r.val, mpi_s.val))

\* The Dsa arm of SignaturePacket::contents
contents_dsa(signature_contents) ==
    LET mpi_r == Integer_from_bytes(signature_contents) IN
    IF ~mpi_r.ok THEN GcryptErr
    ELSE
        LET s_pos == len_encoded(mpi_r.val)
            mpi_s == Integer_from_bytes(Drop(signature_contents, s_pos))
        IN  IF ~mpi_s.ok THEN GcryptErr
            ELSE Ok(SignatureDsa(mpi_r.val, mpi_s.val))

\* SignaturePacket::contents
contents(self) ==
    CASE self.pubkey_algo \in {"Rsa", "RsaEncryptOnly", "RsaSignOnly"} ->
            LET mpi == Integer_from_bytes(self.signature_contents) IN
            IF ~mpi.ok THEN GcryptErr ELSE Ok(SignatureRsa(mpi.val))
      [] self.pubkey_algo = "Dsa" -> contents_dsa(self.signature_contents)
      [] OTHER -> Ok(SignatureUnknown(self.signature_contents))

\* ------------------------------------------------------------- inputs

MaxRaw == 5
MaxPayload == 9

\* Octets at the edges of the three length forms.
EdgeBytes == {0, 1, 191, 192, 254, 255}

RawBuffers == UNION {[1..n -> EdgeBytes] : n \in 0..MaxRaw}

\* Every wire encoding of a subpacket length L < 2^16.
LengthEncodings(L) ==
    (IF L < 192 THEN {<<L>>} ELSE {})
    \cup (IF L >= 192 /\ L <= 16319
          THEN {<<192 + ((L - 192) \div 256), (L - 192) % 256>>} ELSE {})
    \cup {<<255, 0, 0, L \div 256, L % 256>>}

Patterns == {"zero", "up", "ones", "down"}

Payload(pat, n) ==
    [i \in 1..n |-> CASE pat = "zero" -> 0
                      [] pat = "up" -> i % 256
                      [] pat = "ones" -> 255
                      [] pat = "down" -> 255 - (i % 256)]

TagSample == {0, 1, 8, 13, 14, 15, 17, 18, 19, 2, 3, 16, 4, 9, 20, 127, 255}

\* 191 payload octets make the declared length 192, the first two-octet one.
PayloadLens == (0..MaxPayload) \cup {191}

\* length, type tag, payload, with the declared length exact or one too
\* large, and with or without an octet following the subpacket.
SubpacketBuffers ==
    UNION {UNION {{enc \o <<t>> \o Payload(pat, n) \o trail :
                        enc \in LengthEncodings(n + 1 + extra),
                        t \in TagSample,
                        trail \in {<<>>, <<7>>}} :
                  pat \in Patterns, extra \in {0, 1}} :
           n \in PayloadLens}

LimbSample == {0, 1, 258, 65535}

SubpacketValues ==
    {SignatureCreationTime(Duration_from_secs(<<0, 0, h, l>>)) :
        h \in LimbSample, l \in LimbSample}
    \cup {Issuer(<<a, b, c, d>>) :
        a \in LimbSample, b \in {0, 772}, c \in {0, 1286}, d \in LimbSample}

\* ------------------------------------------------------------- subpacket codec

InitCodec ==
    /\ overflow_checks \in BOOLEAN
    /\ id = 0
    /\ sig = None
    /\ out = None
    /\ \/ /\ pc = "decode"
          /\ sub = None
          /\ buf \in RawBuffers \cup SubpacketBuffers
       \/ /\ pc = "encode"
          /\ sub \in SubpacketValues
          /\ buf = <<>>

ToBytes ==
    /\ pc = "encode"
    /\ buf' = to_bytes(sub)
    /\ pc' = "decode"
    /\ UNCHANGED <<sub, id, sig, out, overflow_checks>>

SubpacketLength ==
    /\ pc = "decode"
    /\ out' = subpacket_length(buf)
    /\ pc' = "length_done"
    /\ UNCHANGED <<buf, sub, id, sig, overflow_checks>>

ParseSubpacket ==
    /\ pc = "decode"
    /\ out' = parse_subpacket(buf)
    /\ pc' = "subpacket_done"
    /\ UNCHANGED <<buf, sub, id, sig, overflow_checks>>

NextCodec == ToBytes \/ SubpacketLength \/ ParseSubpacket

SpecCodec == InitCodec /\ [][NextCodec]_vars

\* ------------------------------------------------------------- packet inputs

MaxSigTail == 2
MaxSubs == 3
MaxMpiBytes == 2

\* The legacy header is 1 + 1 + 1 + 4 + 8 + 1 + 1 + 2 octets.
V3HeaderLen == 19

\* A legacy packet whose octets all differ, with one octet overwritten and
\* the whole cut to n octets.
V3Octet(i) == IF i = 1 THEN 3 ELSE IF i = 2 THEN 5 ELSE (i * 13) % 256

HotValues == {0, 4, 17, 255}

V3Buffers ==
    LET N == V3HeaderLen + MaxSigTail IN
    {[i \in 1..n |-> IF i = hot THEN v ELSE V3Octet(i)] :
        n \in 0..N, hot \in 1..N, v \in HotValues}

\* Encoded subpackets: two creation times, two issuers, a reserved type tag,
\* a creation time with a 2-octet payload, an uninterpreted type, a declared
\* length of 0, and a creation time cut short.
SubpacketSamples ==
    { <<5, 2, 0, 0, 0, 1>>, <<5, 2, 1, 2, 3, 4>>,
      <<9, 16, 1, 2, 3, 4, 5, 6, 7, 8>>, <<9, 16, 255, 0, 0, 0, 0, 0, 0, 9>>,
      <<1, 0>>, <<3, 2, 0, 1>>, <<2, 20, 1>>, <<0, 2>>, <<5, 2, 0, 0>> }

RECURSIVE Flatten(_)
Flatten(ss) == IF ss = <<>> THEN <<>> ELSE Head(ss) \o Flatten(Tail(ss))

U16Bytes(n) == <<n \div 256, n % 256>>

\* A modern packet: hashed and unhashed sections that hold the given encoded
\* subpackets, each prefixed by its exact length, then 2 octets and the
\* signature value.
V4Packet(pk, hashed, unhashed, sigbytes) ==
    <<4, 0, pk, 8>> \o U16Bytes(Len(hashed)) \o hashed
        \o U16Bytes(Len(unhashed)) \o unhashed \o <<170, 187>> \o sigbytes

V4Buffers ==
    UNION {{V4Packet(1, Flatten(SubSeq(ss, 1, k)), Flatten(SubSeq(ss, k + 1, Len(ss))),
                     <<0, 1, 1>>) : k \in 0..n, ss \in [1..n -> SubpacketSamples]} :
           n \in 0..MaxSubs}

\* One well-formed modern packet cut to every length.
V4CutBuffers ==
    LET whole == V4Packet(17, <<5, 2, 0, 0, 0, 1>>, <<9, 16, 1, 2, 3, 4, 5, 6, 7, 8>>,
                          <<0, 1, 1, 0, 2, 3>>)
    IN  {SubSeq(whole, 1, n) : n \in 0..Len(whole)}

\* Integer magnitudes of 0..MaxMpiBytes octets, and of 18 and 46 octets
\* (encodings of 20 and 48 octets).
Magnitudes ==
    {[i \in 1..n |-> IF i = 1 THEN top ELSE (i * 37) % 256] :
        n \in (0..MaxMpiBytes) \cup {18, 46}, top \in {1, 128, 255}}

BitLength(b) == CHOOSE k \in 1..8 : 2 ^ (k - 1) <= b /\ b < 2 ^ k

\* Integer::to_bytes(Format::Pgp): the bit count of the value, then its
\* magnitude.
Integer_to_bytes(mpi) ==
    IF mpi = <<>> THEN <<0, 0>>
    ELSE U16Bytes(8 * (Len(mpi) - 1) + BitLength(mpi[1])) \o mpi

\* Packets of either layout whose signature value is the encoding of r
\* followed by the encoding of s, whole or with the last octet missing.
SignatureBuffers ==
    UNION {{LET sigbytes == Integer_to_bytes(r) \o Integer_to_bytes(s)
                whole == IF ver = 3
                         THEN [i \in 1..V3HeaderLen |->
                                  IF i = 16 THEN pk ELSE V3Octet(i)] \o sigbytes
                         ELSE V4Packet(pk, <<>>, <<>>, sigbytes)
            IN  SubSeq(whole, 1, Len(whole) - cut) :
                    r \in Magnitudes, s \in Magnitudes, cut \in {0, 1}} :
           pk \in {1, 17, 22}, ver \in {3, 4}}

\* ------------------------------------------------------------- packet codec

InitPacket ==
    /\ overflow_checks \in BOOLEAN
    /\ id = 0
    /\ sub = None
    /\ sig = None
    /\ out = None
    /\ pc = "start"
    /\ \/ buf \in V3Buffers
       \/ buf \in V4Buffers
       \/ buf \in V4CutBuffers
       \/ buf \in SignatureBuffers

FromBytes ==
    /\ pc = "start"
    /\ out' = from_bytes(buf)
    /\ sig' = IF out'.kind = "Ok" THEN out'.val ELSE sig
    /\ pc' = CASE out'.kind = "Ok" -> "parsed"
               [] out'.kind = "Err" -> "failed"
               [] out'.kind = "Panic" -> "aborted"
    /\ UNCHANGED <<buf, sub, id, overflow_checks>>

Contents ==
    /\ pc = "parsed"
    /\ out' = contents(sig)
    /\ pc' = "contents_done"
    /\ UNCHANGED <<buf, sub, id, sig, overflow_checks>>

NextPacket == FromBytes \/ Contents

SpecPacket == InitPacket /\ [][NextPacket]_vars

\* ------------------------------------------------------------- registries

InitRegistry ==
    /\ overflow_checks \in BOOLEAN
    /\ id \in Byte
    /\ buf = <<>>
    /\ sub = None
    /\ sig = None
    /\ out = None
    /\ pc = "registry"

PublicKeyFrom ==
    /\ pc = "registry"
    /\ out' = PublicKeyAlgorithm_from(id)
    /\ pc' = "pubkey_enum"
    /\ UNCHANGED <<buf, sub, id, sig, overflow_checks>>

PublicKeyInto ==
    /\ pc = "pubkey_enum"
    /\ out' = PublicKeyAlgorithm_into_u8(out)
    /\ pc' = "pubkey_id"
    /\ UNCHANGED <<buf, sub, id, sig, overflow_checks>>

HashFrom ==
    /\ pc = "registry"
    /\ out' = HashAlgorithm_from(id)
    /\ pc' = "hash_enum"
    /\ UNCHANGED <<buf, sub, id, sig, overflow_checks>>

HashInto ==
    /\ pc = "hash_enum"
    /\ out' = HashAlgorithm_into_u8(out)
    /\ pc' = "hash_id"
    /\ UNCHANGED <<buf, sub, id, sig, overflow_checks>>

NextRegistry == PublicKeyFrom \/ PublicKeyInto \/ HashFrom \/ HashInto

SpecRegistry == InitRegistry /\ [][NextRegistry]_vars

\* ------------------------------------------------------------- claims

Failed(r) == r.kind \in {"Error", "Incomplete"}

\* C1: subpacket_length returns f and consumes one octet when the first
\* octet f < 192; returns (f - 192) * 256 + s + 192 and consumes two octets
\* when 192 <= f <= 254; returns the big-endian value of the next four octets
\* and consumes five when f = 255; and fails whenever an octet it needs is
\* missing.
C1_LengthDecoding ==
    pc = "length_done" =>
        IF Len(buf) = 0 THEN Failed(out)
        ELSE
            LET f == buf[1] IN
            CASE f < 192 -> out = Done(Drop(buf, 1), <<0, f>>)
              [] f >= 192 /\ f <= 254 ->
                    IF Len(buf) < 2 THEN Failed(out)
                    ELSE out = Done(Drop(buf, 2),
                                    <<0, (f - 192) * 256 + buf[2] + 192>>)
              [] f = 255 ->
                    IF Len(buf) < 5 THEN Failed(out)
                    ELSE /\ out.kind = "Done"
                         /\ out.rem = Drop(buf, 5)
                         /\ Len(out.val) = 2
                         /\ out.val[1] \div 256 = buf[2]
                         /\ out.val[1] % 256 = buf[3]
                         /\ out.val[2] \div 256 = buf[4]
                         /\ out.val[2] % 256 = buf[5]

C1_Witness ==
    /\ pc = "length_done"
    /\ buf = <<254, 255>>
    /\ out = Done(<<>>, <<0, 16319>>)

\* The subpacket at the front of a buffer, read off the wire format: the
\* size of its length field, its declared length, its type tag and payload.
HeaderLen(b) == IF b[1] < 192 THEN 1 ELSE IF b[1] < 255 THEN 2 ELSE 5

DeclaredLen(b) ==
    IF b[1] < 192 THEN b[1]
    ELSE IF b[1] < 255 THEN (b[1] - 192) * 256 + b[2] + 192
    ELSE b[4] * 256 + b[5]

\* The length field is whole, the declared length is at least 1 (and, in the
\* five-octet form, below 2^16), and the tag and payload are all present.
ValidSubpacket(b) ==
    /\ Len(b) >= 1
    /\ Len(b) >= HeaderLen(b)
    /\ HeaderLen(b) = 5 => b[2] = 0 /\ b[3] = 0
    /\ DeclaredLen(b) >= 1
    /\ Len(b) >= HeaderLen(b) + DeclaredLen(b)

TagOf(b) == b[HeaderLen(b) + 1]

PayloadOf(b) == SubSeq(b, HeaderLen(b) + 2, HeaderLen(b) + DeclaredLen(b))

AfterSubpacket(b) == Drop(b, HeaderLen(b) + DeclaredLen(b))

\* C3: a subpacket with a valid length whose type tag is one of
\* 0, 1, 8, 13, 14, 15, 17, 18, 19 always decodes to the reserved-value error
\* (custom code 2, NomError::UseOfReservedValue), whatever its payload.
C3_ReservedRejected ==
    (/\ pc = "subpacket_done"
     /\ ValidSubpacket(buf)
     /\ TagOf(buf) \in {0, 1, 8, 13, 14, 15, 17, 18, 19})
    => /\ out = Error(Custom(2))
       /\ NomError_from(out.err.code) = "UseOfReservedValue"

C3_Witness ==
    /\ pc = "subpacket_done"
    /\ ValidSubpacket(buf)
    /\ TagOf(buf) = 19
    /\ Len(PayloadOf(buf)) = 3
    /\ out = Error(Custom(2))

\* The octets of a value kept as 16-bit limbs, most significant first.
OctetsOf(x) ==
    [i \in 1..(2 * Len(x)) |->
        IF i % 2 = 1 THEN x[(i + 1) \div 2] \div 256 ELSE x[i \div 2] % 256]

\* C8: with type tag 2 or 3 the payload must be exactly 4 octets, decoded as
\* a big-endian seconds count; with type tag 16 exactly 8 octets, decoded as
\* a big-endian integer.  A shorter payload is the integer-read error
\* (custom code 3); a payload of any other length does not decode to
\* SignatureCreationTime, SignatureExpirationTime or Issuer.
C8_ExactPayload ==
    (/\ pc = "subpacket_done"
     /\ ValidSubpacket(buf)
     /\ TagOf(buf) \in {2, 3, 16})
    => LET p == PayloadOf(buf)
           want == IF TagOf(buf) = 16 THEN 8 ELSE 4
       IN  IF Len(p) = want
           THEN /\ out.kind = "Done"
                /\ out.rem = AfterSubpacket(buf)
                /\ out.val.tag = (CASE TagOf(buf) = 2 -> "SignatureCreationTime"
                                    [] TagOf(buf) = 3 -> "SignatureExpirationTime"
                                    [] TagOf(buf) = 16 -> "Issuer")
                /\ IF TagOf(buf) = 16
                   THEN OctetsOf(out.val.issuer) = p
                   ELSE /\ OctetsOf(out.val.time.secs) = <<0, 0, 0, 0>> \o p
                        /\ out.val.time.nanos = 0
           ELSE IF Len(p) < want THEN out = Error(Custom(3))
           ELSE \/ out.kind # "Done"
                \/ out.val.tag \notin {"SignatureCreationTime",
                                       "SignatureExpirationTime", "Issuer"}

\* What the code does instead: the first 4 (or 8) octets of a payload that is
\* at least that long are decoded and any further payload octets are dropped.
C8_PrefixDecoded ==
    (/\ pc = "subpacket_done"
     /\ ValidSubpacket(buf)
     /\ TagOf(buf) \in {2, 3, 16})
    => LET p == PayloadOf(buf)
           want == IF TagOf(buf) = 16 THEN 8 ELSE 4
       IN  IF Len(p) >= want
           THEN /\ out.kind = "Done"
                /\ out.rem = AfterSubpacket(buf)
                /\ IF TagOf(buf) = 16
                   THEN OctetsOf(out.val.issuer) = SubSeq(p, 1, 8)
                   ELSE OctetsOf(out.val.time.secs)
                            = <<0, 0, 0, 0>> \o SubSeq(p, 1, 4)
           ELSE out = Error(Custom(3))

\* C5: parse_subpacket applied to the octets Subpacket::to_bytes produces for
\* a SignatureCreationTime (whole seconds below 2^32) or an Issuer succeeds,
\* consumes all of them and returns the same subpacket.
C5_RoundTrip ==
    (pc = "subpacket_done" /\ sub # None) => out = Done(<<>>, sub)

\* ------------------------------------------------------------- packet claims

FromBytesReturned == pc \in {"parsed", "failed", "aborted"}

\* The positions a subpacket of the given kind first occurs at (at most one).
FirstOf(subs, kind) ==
    {i \in 1..Len(subs) :
        /\ subs[i].tag = kind
        /\ \A j \in 1..(i - 1) : subs[j].tag # kind}

\* C2: for a modern-layout packet that from_bytes decodes, timestamp is the
\* first SignatureCreationTime of the hashed subpackets if there is one,
\* otherwise the first of the unhashed subpackets, otherwise None; signer is
\* resolved the same way from the Issuer subpackets.
C2_HashedFirst ==
    (pc = "parsed" /\ buf[1] = 4) =>
        LET h == sig.hashed_subpackets
            u == sig.unhashed_subpackets
        IN  /\ out.val = sig
            /\ \A i \in FirstOf(h, "SignatureCreationTime") :
                    sig.timestamp = Some(h[i].time)
            /\ FirstOf(h, "SignatureCreationTime") = {} =>
                    \A i \in FirstOf(u, "SignatureCreationTime") :
                        sig.timestamp = Some(u[i].time)
            /\ (/\ FirstOf(h, "SignatureCreationTime") = {}
                /\ FirstOf(u, "SignatureCreationTime") = {})
                    => sig.timestamp = NoneOpt
            /\ \A i \in FirstOf(h, "Issuer") : sig.signer = Some(h[i].issuer)
            /\ FirstOf(h, "Issuer") = {} =>
                    \A i \in FirstOf(u, "Issuer") : sig.signer = Some(u[i].issuer)
            /\ (FirstOf(h, "Issuer") = {} /\ FirstOf(u, "Issuer") = {})
                    => sig.signer = NoneOpt

\* Both sections carry a creation time, with different values, and the hashed
\* one is returned.
C2_Witness ==
    /\ pc = "parsed"
    /\ buf[1] = 4
    /\ \E i \in FirstOf(sig.hashed_subpackets, "SignatureCreationTime") :
       \E j \in FirstOf(sig.unhashed_subpackets, "SignatureCreationTime") :
            /\ sig.hashed_subpackets[i].time # sig.unhashed_subpackets[j].time
            /\ sig.timestamp = Some(sig.hashed_subpackets[i].time)

\* The two subpacket sections of a modern-layout buffer, read off the wire
\* format.
HashedLen(b) == b[5] * 256 + b[6]
HashedSection(b) == SubSeq(b, 7, 6 + HashedLen(b))
UnhashedAt(b) == 7 + HashedLen(b)
UnhashedLen(b) == b[UnhashedAt(b)] * 256 + b[UnhashedAt(b) + 1]
UnhashedSection(b) ==
    SubSeq(b, UnhashedAt(b) + 2, UnhashedAt(b) + 1 + UnhashedLen(b))

\* Both sections and the two octets after them are present.
WellFramed(b) ==
    /\ Len(b) >= 6
    /\ b[1] = 4
    /\ Len(b) >= UnhashedAt(b) + 1
    /\ Len(b) >= UnhashedAt(b) + 1 + UnhashedLen(b) + 2

\* Decoding the subpackets of a section one after the other, one of them
\* fails with an error or for want of octets.
RECURSIVE SectionFails(_)

SectionFailsAt(r) ==
    \/ Failed(r)
    \/ r.kind = "Done" /\ SectionFails(r.rem)

SectionFails(sec) == sec # <<>> /\ SectionFailsAt(parse_subpacket(sec))

\* C4: if decoding a subpacket inside the declared length of the hashed or
\* the unhashed section of a modern-layout packet fails, from_bytes does not
\* return Ok.
C4_AllOrNothing ==
    (/\ FromBytesReturned
     /\ WellFramed(buf)
     /\ SectionFails(HashedSection(buf)) \/ SectionFails(UnhashedSection(buf)))
    => out.kind # "Ok"

\* C6: input that starts with 0x03 decodes if and only if the second octet is
\* 0x05 and at least 19 octets are present; then timestamp is the big-endian
\* value of octets 3..6, signer that of octets 7..14, the algorithms come from
\* octets 15 and 16, both subpacket sequences are empty and
\* signature_contents is everything from offset 19 on.
C6_LegacyLayout ==
    (FromBytesReturned /\ Len(buf) >= 1 /\ buf[1] = 3) =>
        /\ out.kind \in {"Ok", "Err"}
        /\ out.kind = "Ok" <=> (Len(buf) >= 19 /\ buf[2] = 5)
        /\ out.kind = "Ok" =>
            /\ out.val.timestamp.some
            /\ OctetsOf(out.val.timestamp.v.secs) = <<0, 0, 0, 0>> \o SubSeq(buf, 4, 7)
            /\ out.val.timestamp.v.nanos = 0
            /\ out.val.signer.some
            /\ OctetsOf(out.val.signer.v) = SubSeq(buf, 8, 15)
            /\ out.val.pubkey_algo = PublicKeyAlgorithm_from(buf[16])
            /\ out.val.hash_algo = HashAlgorithm_from(buf[17])
            /\ out.val.hashed_subpackets = <<>>
            /\ out.val.unhashed_subpackets = <<>>
            /\ out.val.signature_contents = SubSeq(buf, 20, Len(buf))

C6_Witness ==
    /\ pc = "parsed"
    /\ buf[1] = 3
    /\ Len(buf) = 21
    /\ out.kind = "Ok"
    /\ out.val.signature_contents = SubSeq(buf, 20, 21)
    /\ out.val.pubkey_algo = "Dsa"

\* C7: when the public-key algorithm is DSA and signature_contents is the
\* encoding of r, of L octets, followed by the encoding of s, contents()
\* returns Dsa(r, s), with s decoded from offset L.
C7_DsaSplit ==
    (pc = "contents_done" /\ sig.pubkey_algo = "Dsa") =>
        \A r \in Magnitudes, s \in Magnitudes :
            sig.signature_contents = Integer_to_bytes(r) \o Integer_to_bytes(s)
            => /\ out = Ok(SignatureDsa(r, s))
               /\ Integer_from_bytes(Drop(sig.signature_contents,
                                          Len(Integer_to_bytes(r))))
                    = [ok |-> TRUE, val |-> out.val.s]

\* The encoding of r takes 48 octets and that of s 20.
C7_Witness ==
    /\ pc = "contents_done"
    /\ sig.pubkey_algo = "Dsa"
    /\ \E r \in Magnitudes, s \in Magnitudes :
        /\ Len(Integer_to_bytes(r)) = 48
        /\ Len(Integer_to_bytes(s)) = 20
        /\ sig.signature_contents = Integer_to_bytes(r) \o Integer_to_bytes(s)
        /\ out = Ok(SignatureDsa(r, s))

\* C10: from_bytes returns Ok or an InvalidFormat error for every buffer and
\* never aborts, also when a subpacket declares the length 0.
C10_DecodingTotal ==
    FromBytesReturned =>
        \/ out.kind = "Ok"
        \/ out.kind = "Err" /\ out.error = "InvalidFormat"

\* ------------------------------------------------------------- registry claims

\* C9: mapping an octet to either enumeration never fails, and mapping the
\* result back gives the octet when it is a recognised id and 0xFF otherwise.
C9_RegistryRoundTrip ==
    /\ pc = "pubkey_enum" =>
        out \in {"Rsa", "RsaEncryptOnly", "RsaSignOnly", "ElgamalEncryptOnly",
                 "Dsa", "EllipticCurve", "Ecdsa", "Elgamal", "DiffieHellman",
                 "Unknown"}
    /\ pc = "pubkey_id" =>
        out = IF id \in {1, 2, 3, 16, 17, 18, 19, 20, 21} THEN id ELSE 255
    /\ pc = "hash_enum" =>
        out \in {"Md5", "Sha1", "Ripemd160", "Sha256", "Sha384", "Sha512",
                 "Sha224", "Unknown"}
    /\ pc = "hash_id" =>
        out = IF id \in {1, 2, 3, 8, 9, 10, 11} THEN id ELSE 255

C9_Witness ==
    /\ pc = "pubkey_id"
    /\ id = 250
    /\ out = 255

====
